---- MODULE Spec2Model ----
(***************************************************************************)
(* State-machine model of randomize.py: main() and its helpers             *)
(* create_pack, create_parents, join_config_path and                       *)
(* determine_compatibility_group.                                          *)
(*                                                                         *)
(* A path is a sequence of segments: "./item/sub" is <<".","item","sub">>. *)
(* A file path is a record [dir |-> path of its directory, name |-> file   *)
(* name], a file name a record [stem, ext].                                *)
(***************************************************************************)
EXTENDS Integers, Sequences, FiniteSets, TLC

\* ------------------------------------------------------------- bounds
\* Largest number of .png files in the whole source tree.
MaxFiles == 3
\* Seed arguments range over 0..MaxSeed.
MaxSeed == 1
\* Number of invocations of the program on the same inputs.
MaxRuns == 2

\* ------------------------------------------------------------- paths
CurDir == <<".">>

\* The directories of the source texture tree, as normalized paths relative
\* to the texture root.
Dirs == { CurDir, <<"item">>, <<"item", "sub">>, <<"block">> }

RECURSIVE Collapse(_, _)
\* os.path.normpath on segments: "." and empty segments vanish, ".." removes
\* the segment before it (or stays when there is none).
Collapse(acc, rest) ==
    IF rest = <<>> THEN acc
    ELSE LET s == Head(rest) IN
         IF s = "." \/ s = "" THEN Collapse(acc, Tail(rest))
         ELSE IF s = ".." /\ acc # <<>> /\ acc[Len(acc)] # ".."
              THEN Collapse(SubSeq(acc, 1, Len(acc) - 1), Tail(rest))
              ELSE Collapse(Append(acc, s), Tail(rest))

\* os.path.normpath: the empty result is ".".
NormPath(p) ==
    LET c == Collapse(<<>>, p) IN IF c = <<>> THEN CurDir ELSE c

\* os.path.join of relative paths.
Join(a, b) == a \o b

RECURSIVE JoinAll(_)
\* os.path.join(*obj)
JoinAll(ps) == IF ps = <<>> THEN <<>> ELSE Join(Head(ps), JoinAll(Tail(ps)))

\* A config.json path entry: a string, a list of strings, or anything else.
StrEntry(p) == [type |-> "str", val |-> <<p>>]
ListEntry(ps) == [type |-> "list", val |-> ps]
IntEntry == [type |-> "int", val |-> <<>>]

\* join_config_path raises TypeError for an entry that is neither.
JoinConfigPathRaises(obj) == obj.type \notin {"str", "list"}

JoinConfigPath(obj) ==
    IF obj.type = "str" THEN obj.val[1] ELSE JoinAll(obj.val)

\* The comprehension of lines 146 and 148 applied to one entry.
ConfigDir(obj) == NormPath(Join(CurDir, JoinConfigPath(obj)))

InSeq(x, s) == \E i \in 1..Len(s) : s[i] = x

DetermineLastGroup(dp, groups) ==
    IF \E i \in 1..Len(groups) : InSeq(NormPath(dp), groups[i])
    THEN CHOOSE i \in 1..Len(groups) :
            /\ InSeq(NormPath(dp), groups[i])
            /\ \A j \in (i + 1)..Len(groups) : ~InSeq(NormPath(dp), groups[j])
    ELSE 0

\* determine_compatibility_group: the index (from 1) of the first group that
\* holds the normalized path, 0 for None.
DetermineCompatibilityGroup(dp, groups) ==
    IF \E i \in 1..Len(groups) : InSeq(NormPath(dp), groups[i])
    THEN CHOOSE i \in 1..Len(groups) :
            /\ InSeq(NormPath(dp), groups[i])
            /\ \A j \in 1..(i - 1) : ~InSeq(NormPath(dp), groups[j])
    ELSE 0

\* ------------------------------------------------------------- inputs
\* config.json files the runs are given.
Configs ==
    { [excludedDirs |-> <<>>, compatibilityGroups |-> <<>>],
      [excludedDirs |-> << StrEntry(<<"item", "sub">>) >>,
       compatibilityGroups |-> << << StrEntry(<<"item">>), StrEntry(<<".", "block">>) >> >>],
      [excludedDirs |-> << StrEntry(<<"item">>) >>,
       compatibilityGroups |-> << << StrEntry(<<"block">>), StrEntry(CurDir) >> >>],
      [excludedDirs |-> << StrEntry(CurDir) >>,
       compatibilityGroups |-> << << StrEntry(<<"item">>) >> >>],
      [excludedDirs |-> <<>>,
       compatibilityGroups |-> << << StrEntry(<<"item">>) >>,
                                  << ListEntry(<< <<"item">> >>), StrEntry(<<"block">>) >> >>],
      [excludedDirs |-> << ListEntry(<< <<"block">> >>) >>,
       compatibilityGroups |-> << << ListEntry(<< <<"item">>, <<"sub">> >>), StrEntry(<<"item">>) >>,
                                  <<>> >>],
      [excludedDirs |-> << IntEntry >>, compatibilityGroups |-> <<>>] }

\* The number of .png files of every directory, MaxFiles at most in all.
FileCounts ==
    { c \in [Dirs -> 0..MaxFiles] :
        c[CurDir] + c[<<"item">>] + c[<<"item", "sub">>] + c[<<"block">>] <= MaxFiles }

\* A source tree: the .png files of every directory, whether every directory
\* also holds a file that is no .png, and the order in which the texture
\* root lists its two subdirectories.
Trees == [pngs : FileCounts, other : BOOLEAN, flip : BOOLEAN]

EmptyTree == [pngs |-> [d \in Dirs |-> 0], other |-> FALSE, flip |-> FALSE]

\* What os.walk's scandir returns for a directory.
SubDirs(t, d) ==
    IF d = CurDir THEN (IF t.flip THEN <<"block", "item">> ELSE <<"item", "block">>)
    ELSE IF d = <<"item">> THEN <<"sub">>
    ELSE <<>>

Files(t, d) ==
    [i \in 1..t.pngs[d] |-> [stem |-> i, ext |-> ".png"]]
    \o (IF t.other THEN << [stem |-> 0, ext |-> ".txt"] >> ELSE <<>>)

\* ------------------------------------------------------------- random
\* The generator behind random.seed and random.shuffle, reduced to a linear
\* congruential generator of 16 states.
SeedState(n) == n % 16

NextRand(s) == (5 * s + 3) % 16

\* random._randbelow(n) on the generator's new state
RandBelow(s, n) == s % n

OverwriteSwap(x, i, j) == [x EXCEPT ![i] = x[j]]

\* x[i], x[j] = x[j], x[i]
Swap(x, i, j) == [x EXCEPT ![i] = x[j], ![j] = x[i]]

RECURSIVE ShuffleFrom(_, _, _)
\* random.shuffle: for i in reversed(range(1, len(x))): j = randbelow(i + 1);
\* swap x[i] and x[j].  Positions count from 1 here.
ShuffleFrom(x, i, s) ==
    IF i < 2 THEN [list |-> x, rng |-> s]
    ELSE LET s2 == NextRand(s)
             j == RandBelow(s2, i) + 1
         IN ShuffleFrom(Swap(x, i, j), i - 1, s2)

RandomShuffle(x, s) == ShuffleFrom(x, Len(x), s)

\* zip(filepaths, filepaths_shuffled)
Zip(a, b) == [i \in 1..Len(a) |-> [src |-> a[i], dest |-> b[i]]]

RECURSIVE ShuffleGroups(_, _, _)
\* Lines 189-195 from group k on: the pairs of every group, in group order,
\* and the generator's state afterwards.
ShuffleGroups(groups, k, s) ==
    IF k > Len(groups) THEN [pairs |-> <<>>, rng |-> s]
    ELSE LET sh == RandomShuffle(groups[k], s)
             rest == ShuffleGroups(groups, k + 1, sh.rng)
         IN [pairs |-> Zip(groups[k], sh.list) \o rest.pairs, rng |-> rest.rng]

\* ------------------------------------------------------------- state
VARIABLES
    argv,                \* sys.argv[1:]: <<>> or <<seed>>
    config_exists,       \* config.json can be opened and parsed
    config,              \* the content of config.json
    pack,                \* "none": no pack directory; "pack_only": pack without
                         \* assets/minecraft/textures; "full"
    tree,                \* the source texture tree
    now,                 \* the clock, in the unit of the seed
    run,                 \* which invocation this is
    prev_pairs,          \* filepath_pairs of the invocation before
    pc,                  \* the statement main is at
    out,                 \* standard output, a sequence of <<text, number>>
    config_read,         \* config.json has been opened
    seed,
    rng,                 \* state of the random module
    cwd,                 \* the process working directory
    original_cwd,
    excluded_dirs,
    compatibility_groups,
    filepath_groups,
    stack,               \* os.walk's directories still to visit
    visited,             \* the directories os.walk has yielded, in order
    filepath_pairs,
    pack_dirs,           \* directories that exist at or below the pack directory
    mcmeta,              \* pack.mcmeta has been written
    copied,              \* [src, dest] of every file copied
    i,                   \* index of the copy loop
    archive,             \* the zip exists
    removed,             \* the pack directory has been removed by rmtree
    failed_at,           \* the step that raised, "" when none has
    exit_code            \* -1 while running

inputs == <<argv, config_exists, config, pack, tree>>
progress == <<pc, out, config_read, seed, rng, cwd, original_cwd, excluded_dirs,
              compatibility_groups, filepath_groups, stack, visited,
              filepath_pairs, pack_dirs, mcmeta, copied, i, archive, removed,
              failed_at, exit_code>>
vars == <<inputs, now, run, prev_pairs, progress>>

Cwd0 == "cwd"
SRC_TEXTURES_PATH == <<"pack", "assets", "minecraft", "textures">>
PackName == <<"Randomized Textures">>
DEST_TEXTURES_PATH == PackName \o <<"assets", "minecraft", "textures">>

\* The state main starts in.
Fresh ==
    /\ pc = "load_config"
    /\ out = <<>>
    /\ config_read = FALSE
    /\ seed = -1
    /\ rng = 0
    /\ cwd = Cwd0
    /\ original_cwd = Cwd0
    /\ excluded_dirs = <<>>
    /\ compatibility_groups = <<>>
    /\ filepath_groups = <<>>
    /\ stack = <<>>
    /\ visited = <<>>
    /\ filepath_pairs = <<>>
    /\ pack_dirs = {}
    /\ mcmeta = FALSE
    /\ copied = {}
    /\ i = 0
    /\ archive = FALSE
    /\ removed = FALSE
    /\ failed_at = ""
    /\ exit_code = -1

Init ==
    /\ argv \in {<<>>} \cup { <<n>> : n \in 0..MaxSeed }
    /\ \/ /\ config_exists = TRUE
          /\ config \in Configs
          /\ pack = "full"
          /\ tree \in Trees
       \/ /\ config_exists \in BOOLEAN
          /\ config = [excludedDirs |-> <<>>, compatibilityGroups |-> <<>>]
          /\ pack \in {"none", "pack_only"}
          /\ tree = EmptyTree
       \/ /\ config_exists = FALSE
          /\ config = [excludedDirs |-> <<>>, compatibilityGroups |-> <<>>]
          /\ pack = "full"
          /\ tree = EmptyTree
    /\ now = 1
    /\ run = 1
    /\ prev_pairs = <<>>
    /\ Fresh

\* ------------------------------------------------------------- steps
Say(text, n) == out' = Append(out, <<text, n>>)

\* An exception nothing catches: the interpreter ends the process with
\* status 1.
Raise(step) ==
    /\ pc' = "exit"
    /\ failed_at' = step
    /\ exit_code' = 1

\* Line 126: config = json.load(open("config.json"))
LoadConfig ==
    /\ pc = "load_config"
    /\ config_exists
    /\ config_read' = TRUE
    /\ pc' = "seed"
    /\ UNCHANGED <<inputs, now, run, prev_pairs, out, seed, rng, cwd, original_cwd,
                   excluded_dirs, compatibility_groups, filepath_groups, stack,
                   visited, filepath_pairs, pack_dirs, mcmeta, copied, i, archive,
                   removed, failed_at, exit_code>>

LoadConfigFails ==
    /\ pc = "load_config"
    /\ ~config_exists
    /\ Raise("load_config")
    /\ UNCHANGED <<inputs, now, run, prev_pairs, out, config_read, seed, rng, cwd,
                   original_cwd, excluded_dirs, compatibility_groups,
                   filepath_groups, stack, visited, filepath_pairs, pack_dirs,
                   mcmeta, copied, i, archive, removed>>

SeedFromClock == now

\* Lines 129-133: the seed argument, or the clock in milliseconds.
ChooseSeed == IF Len(argv) > 0 THEN argv[1] ELSE now

SeedRandomSilently ==
    /\ pc = "seed"
    /\ seed' = ChooseSeed
    /\ rng' = SeedState(ChooseSeed)
    /\ pc' = "check_source"
    /\ UNCHANGED <<inputs, now, run, prev_pairs, out, config_read, cwd, original_cwd,
                   excluded_dirs, compatibility_groups, filepath_groups, stack,
                   visited, filepath_pairs, pack_dirs, mcmeta, copied, i, archive,
                   removed, failed_at, exit_code>>

\* Lines 128-136: random.seed(seed); print(f"random seed: {seed}")
SeedRandom ==
    /\ pc = "seed"
    /\ seed' = ChooseSeed
    /\ rng' = SeedState(ChooseSeed)
    /\ Say("random seed", ChooseSeed)
    /\ pc' = "check_source"
    /\ UNCHANGED <<inputs, now, run, prev_pairs, config_read, cwd, original_cwd,
                   excluded_dirs, compatibility_groups, filepath_groups, stack,
                   visited, filepath_pairs, pack_dirs, mcmeta, copied, i, archive,
                   removed, failed_at, exit_code>>

\* Lines 139-141, the directory is there.
CheckSource ==
    /\ pc = "check_source"
    /\ pack # "none"
    /\ pc' = "config_paths"
    /\ UNCHANGED <<inputs, now, run, prev_pairs, out, config_read, seed, rng, cwd,
                   original_cwd, excluded_dirs, compatibility_groups,
                   filepath_groups, stack, visited, filepath_pairs, pack_dirs,
                   mcmeta, copied, i, archive, removed, failed_at, exit_code>>

\* Lines 139-141: print("error: source directory must exist"); sys.exit(1)
CheckSourceFails ==
    /\ pc = "check_source"
    /\ pack = "none"
    /\ Say("error: source directory must exist", 0)
    /\ pc' = "exit"
    /\ failed_at' = "check_source"
    /\ exit_code' = 1
    /\ UNCHANGED <<inputs, now, run, prev_pairs, config_read, seed, rng, cwd,
                   original_cwd, excluded_dirs, compatibility_groups,
                   filepath_groups, stack, visited, filepath_pairs, pack_dirs,
                   mcmeta, copied, i, archive, removed>>

ConfigRaises ==
    \/ \E k \in 1..Len(config.excludedDirs) : JoinConfigPathRaises(config.excludedDirs[k])
    \/ \E g \in 1..Len(config.compatibilityGroups) :
          \E k \in 1..Len(config.compatibilityGroups[g]) :
             JoinConfigPathRaises(config.compatibilityGroups[g][k])

\* Lines 145-152: excluded_dirs, compatibility_groups and one empty list of
\* file paths for every configured group.
ReadConfigPaths ==
    /\ pc = "config_paths"
    /\ ~ConfigRaises
    /\ excluded_dirs' = [k \in 1..Len(config.excludedDirs) |->
                            ConfigDir(config.excludedDirs[k])]
    /\ compatibility_groups' =
          [g \in 1..Len(config.compatibilityGroups) |->
              [k \in 1..Len(config.compatibilityGroups[g]) |->
                  ConfigDir(config.compatibilityGroups[g][k])]]
    /\ Say("shuffling filepaths...", 0)
    /\ filepath_groups' = [g \in 1..Len(config.compatibilityGroups) |-> <<>>]
    /\ pc' = "chdir"
    /\ UNCHANGED <<inputs, now, run, prev_pairs, config_read, seed, rng, cwd,
                   original_cwd, stack, visited, filepath_pairs, pack_dirs, mcmeta,
                   copied, i, archive, removed, failed_at, exit_code>>

\* join_config_path raises TypeError inside the comprehension.
ReadConfigPathsFails ==
    /\ pc = "config_paths"
    /\ ConfigRaises
    /\ Raise("config_paths")
    /\ UNCHANGED <<inputs, now, run, prev_pairs, out, config_read, seed, rng, cwd,
                   original_cwd, excluded_dirs, compatibility_groups,
                   filepath_groups, stack, visited, filepath_pairs, pack_dirs,
                   mcmeta, copied, i, archive, removed>>

ChangeDirUnchecked ==
    /\ pc = "chdir"
    /\ original_cwd' = cwd
    /\ cwd' = "textures"
    /\ stack' = IF pack = "full" THEN << CurDir >> ELSE <<>>
    /\ pc' = "walk"
    /\ UNCHANGED <<inputs, now, run, prev_pairs, out, config_read, seed, rng,
                   excluded_dirs, compatibility_groups, filepath_groups, visited,
                   filepath_pairs, pack_dirs, mcmeta, copied, i, archive, removed,
                   failed_at, exit_code>>

\* Lines 155-158: original_cwd = os.getcwd(); os.chdir(SRC_TEXTURES_PATH);
\* os.walk(".") starts.
ChangeDir ==
    /\ pc = "chdir"
    /\ pack = "full"
    /\ original_cwd' = cwd
    /\ cwd' = "textures"
    /\ stack' = << CurDir >>
    /\ pc' = "walk"
    /\ UNCHANGED <<inputs, now, run, prev_pairs, out, config_read, seed, rng,
                   excluded_dirs, compatibility_groups, filepath_groups, visited,
                   filepath_pairs, pack_dirs, mcmeta, copied, i, archive, removed,
                   failed_at, exit_code>>

\* os.chdir raises FileNotFoundError: the working directory stays.
ChangeDirFails ==
    /\ pc = "chdir"
    /\ pack # "full"
    /\ original_cwd' = cwd
    /\ Raise("chdir")
    /\ UNCHANGED <<inputs, now, run, prev_pairs, out, config_read, seed, rng, cwd,
                   excluded_dirs, compatibility_groups, filepath_groups, stack,
                   visited, filepath_pairs, pack_dirs, mcmeta, copied, i, archive,
                   removed>>

\* os.path.splitext(fn)[1]
SplitExt(fn) == fn.ext

\* Lines 160-166: the subdirectories left after the excluded ones are removed.
KeptDirnames(root, dirnames) ==
    SelectSeq(dirnames,
              LAMBDA dn : ~InSeq(NormPath(Join(root, <<dn>>)), excluded_dirs))

\* Lines 169-174: the file names left after the non-PNG ones are removed.
KeptFilenames(filenames) ==
    SelectSeq(filenames, LAMBDA fn : SplitExt(fn) = ".png")

\* Line 177
Filepaths(root, filenames) ==
    [k \in 1..Len(filenames) |-> [dir |-> root, name |-> filenames[k]]]

\* Lines 180-184
Classify(groups, root, filepaths) ==
    LET compatibility_group == DetermineCompatibilityGroup(NormPath(root), compatibility_groups)
    IN IF compatibility_group # 0
       THEN [groups EXCEPT ![compatibility_group] = @ \o filepaths]
       ELSE Append(groups, filepaths)

\* Lines 158-184: one iteration of the loop over os.walk("."), which then
\* queues the subdirectories that are left, in their order, before the
\* directories already waiting.
WalkDirectory ==
    /\ pc = "walk"
    /\ stack # <<>>
    /\ LET root == Head(stack)
           dirnames == KeptDirnames(root, SubDirs(tree, NormPath(root)))
           filenames == KeptFilenames(Files(tree, NormPath(root)))
       IN /\ filepath_groups' = Classify(filepath_groups, root, Filepaths(root, filenames))
          /\ stack' = [k \in 1..Len(dirnames) |-> Join(root, <<dirnames[k]>>)] \o Tail(stack)
          /\ visited' = Append(visited, root)
    /\ UNCHANGED <<inputs, now, run, prev_pairs, pc, out, config_read, seed, rng, cwd,
                   original_cwd, excluded_dirs, compatibility_groups,
                   filepath_pairs, pack_dirs, mcmeta, copied, i, archive, removed,
                   failed_at, exit_code>>

\* An exception raised while the loop runs (KeyboardInterrupt, MemoryError):
\* nothing catches it and line 186 is not reached.
WalkRaises ==
    /\ pc = "walk"
    /\ stack # <<>>
    /\ Raise("walk")
    /\ UNCHANGED <<inputs, now, run, prev_pairs, out, config_read, seed, rng, cwd,
                   original_cwd, excluded_dirs, compatibility_groups,
                   filepath_groups, stack, visited, filepath_pairs, pack_dirs,
                   mcmeta, copied, i, archive, removed>>

\* Line 186: os.chdir(original_cwd)
RestoreDir ==
    /\ pc = "walk"
    /\ stack = <<>>
    /\ cwd' = original_cwd
    /\ pc' = "shuffle"
    /\ UNCHANGED <<inputs, now, run, prev_pairs, out, config_read, seed, rng,
                   original_cwd, excluded_dirs, compatibility_groups,
                   filepath_groups, stack, visited, filepath_pairs, pack_dirs,
                   mcmeta, copied, i, archive, removed, failed_at, exit_code>>

\* Lines 188-197
ShuffleFilepaths ==
    /\ pc = "shuffle"
    /\ LET r == ShuffleGroups(filepath_groups, 1, rng)
       IN /\ filepath_pairs' = r.pairs
          /\ rng' = r.rng
    /\ Say("shuffling filepaths... done", 0)
    /\ pc' = "create_pack"
    /\ UNCHANGED <<inputs, now, run, prev_pairs, config_read, seed, cwd, original_cwd,
                   excluded_dirs, compatibility_groups, filepath_groups, stack,
                   visited, pack_dirs, mcmeta, copied, i, archive, removed,
                   failed_at, exit_code>>

\* Every prefix of a path: the path and the directories above it.
Prefixes(p) == { SubSeq(p, 1, k) : k \in 1..Len(p) }

\* create_pack, lines 35-37 included: the directories it leaves behind.
Skeleton == Prefixes(DEST_TEXTURES_PATH)

\* Lines 199-207 with create_pack.  os.mkdir(root) succeeds, or it raises
\* because a directory of that name is there already: the except clause
\* prints and create_pack goes on into that directory.
CreatePack ==
    /\ pc = "create_pack"
    /\ \E exists \in BOOLEAN :
          out' = out \o << <<"creating resource pack...", 0>> >>
                     \o (IF exists THEN << <<"error: failed to create root directory", 0>> >>
                                   ELSE <<>>)
                     \o << <<"creating resource pack... done", 0>>,
                           <<"copying textures... %", 0>> >>
    /\ pack_dirs' = Skeleton
    /\ mcmeta' = TRUE
    /\ i' = 0
    /\ pc' = "copy"
    /\ UNCHANGED <<inputs, now, run, prev_pairs, config_read, seed, rng, cwd,
                   original_cwd, excluded_dirs, compatibility_groups,
                   filepath_groups, stack, visited, filepath_pairs, copied, archive,
                   removed, failed_at, exit_code>>

\* os.mkdir(root) raises and the directory is not there (no permission, no
\* space): the except clause prints, then open() of pack.mcmeta raises.
CreatePackFails ==
    /\ pc = "create_pack"
    /\ out' = out \o << <<"creating resource pack...", 0>>,
                        <<"error: failed to create root directory", 0>> >>
    /\ Raise("create_pack")
    /\ UNCHANGED <<inputs, now, run, prev_pairs, config_read, seed, rng, cwd,
                   original_cwd, excluded_dirs, compatibility_groups,
                   filepath_groups, stack, visited, filepath_pairs, pack_dirs,
                   mcmeta, copied, i, archive, removed>>

\* create_parents(path): every directory above the file is made unless it
\* exists.  dp is the normalized path of the file's directory.
CreateParents(dirs, dp) == dirs \cup Prefixes(dp)

\* Line 210: math.floor((i / num_pairs) * 100)
PercentComplete(k, num_pairs) == (k * 100) \div num_pairs

\* Lines 214-215: the normalized source and destination of a pair.
SrcFp(pair) == [dir |-> NormPath(Join(SRC_TEXTURES_PATH, pair.src.dir)),
                name |-> pair.src.name]
DestFp(pair) == [dir |-> NormPath(Join(DEST_TEXTURES_PATH, pair.dest.dir)),
                 name |-> pair.dest.name]

CopyTextureSkipsFailure ==
    /\ pc = "copy"
    /\ i < Len(filepath_pairs)
    /\ Say("copying textures... %", PercentComplete(i, Len(filepath_pairs)))
    /\ failed_at' = "copy"
    /\ i' = i + 1
    /\ UNCHANGED <<inputs, now, run, prev_pairs, pc, config_read, seed, rng, cwd,
                   original_cwd, excluded_dirs, compatibility_groups,
                   filepath_groups, stack, visited, filepath_pairs, pack_dirs,
                   mcmeta, copied, archive, removed, exit_code>>

\* Lines 208-219: one iteration of the copy loop.
CopyTexture ==
    /\ pc = "copy"
    /\ i < Len(filepath_pairs)
    /\ Say("copying textures... %", PercentComplete(i, Len(filepath_pairs)))
    /\ pack_dirs' = CreateParents(pack_dirs, DestFp(filepath_pairs[i + 1]).dir)
    /\ copied' = copied \cup { [src |-> SrcFp(filepath_pairs[i + 1]),
                                dest |-> DestFp(filepath_pairs[i + 1])] }
    /\ i' = i + 1
    /\ UNCHANGED <<inputs, now, run, prev_pairs, pc, config_read, seed, rng, cwd,
                   original_cwd, excluded_dirs, compatibility_groups,
                   filepath_groups, stack, visited, filepath_pairs, mcmeta, archive,
                   removed, failed_at, exit_code>>

\* create_parents or shutil.copyfile raises in an iteration: os.mkdir in
\* create_parents (nothing of the pair is made), or copyfile after the
\* parents are there.
CopyTextureFails ==
    /\ pc = "copy"
    /\ i < Len(filepath_pairs)
    /\ Say("copying textures... %", PercentComplete(i, Len(filepath_pairs)))
    /\ \E parents_made \in BOOLEAN :
          pack_dirs' = IF parents_made
                       THEN CreateParents(pack_dirs, DestFp(filepath_pairs[i + 1]).dir)
                       ELSE pack_dirs
    /\ Raise("copy")
    /\ UNCHANGED <<inputs, now, run, prev_pairs, config_read, seed, rng, cwd,
                   original_cwd, excluded_dirs, compatibility_groups,
                   filepath_groups, stack, visited, filepath_pairs, mcmeta, copied,
                   i, archive, removed>>

\* Lines 220-225: the loop is over; shutil.make_archive(pack_name, "zip", pack_name)
Compress ==
    /\ pc = "copy"
    /\ i >= Len(filepath_pairs)
    /\ out' = out \o << <<"copying textures... done", 0>>, <<"compressing...", 0>>,
                        <<"compressing... done", 0>> >>
    /\ archive' = TRUE
    /\ pc' = "cleanup"
    /\ UNCHANGED <<inputs, now, run, prev_pairs, config_read, seed, rng, cwd,
                   original_cwd, excluded_dirs, compatibility_groups,
                   filepath_groups, stack, visited, filepath_pairs, pack_dirs,
                   mcmeta, copied, i, removed, failed_at, exit_code>>

\* shutil.make_archive raises.
CompressFails ==
    /\ pc = "copy"
    /\ i >= Len(filepath_pairs)
    /\ out' = out \o << <<"copying textures... done", 0>>, <<"compressing...", 0>> >>
    /\ Raise("compress")
    /\ UNCHANGED <<inputs, now, run, prev_pairs, config_read, seed, rng, cwd,
                   original_cwd, excluded_dirs, compatibility_groups,
                   filepath_groups, stack, visited, filepath_pairs, pack_dirs,
                   mcmeta, copied, i, archive, removed>>

CleanUpKeepsDirectory ==
    /\ pc = "cleanup"
    /\ out' = out \o << <<"cleaning up...", 0>>, <<"cleaning up... done", 0>> >>
    /\ pc' = "done"
    /\ exit_code' = 0
    /\ UNCHANGED <<inputs, now, run, prev_pairs, config_read, seed, rng, cwd,
                   original_cwd, excluded_dirs, compatibility_groups,
                   filepath_groups, stack, visited, filepath_pairs, pack_dirs,
                   mcmeta, copied, i, archive, removed, failed_at>>

\* Lines 227-230: shutil.rmtree(pack_name), then main returns and the
\* process ends with status 0.
CleanUp ==
    /\ pc = "cleanup"
    /\ out' = out \o << <<"cleaning up...", 0>>, <<"cleaning up... done", 0>> >>
    /\ pack_dirs' = {}
    /\ removed' = TRUE
    /\ pc' = "done"
    /\ exit_code' = 0
    /\ UNCHANGED <<inputs, now, run, prev_pairs, config_read, seed, rng, cwd,
                   original_cwd, excluded_dirs, compatibility_groups,
                   filepath_groups, stack, visited, filepath_pairs, mcmeta, copied,
                   i, archive, failed_at>>

\* shutil.rmtree raises: nothing catches it.
CleanUpFails ==
    /\ pc = "cleanup"
    /\ Say("cleaning up...", 0)
    /\ Raise("cleanup")
    /\ UNCHANGED <<inputs, now, run, prev_pairs, config_read, seed, rng, cwd,
                   original_cwd, excluded_dirs, compatibility_groups,
                   filepath_groups, stack, visited, filepath_pairs, pack_dirs,
                   mcmeta, copied, i, archive, removed>>

\* Lines 233-234: the program is started again, later, on the same
\* arguments, config.json and source tree.  The variables of the run start
\* over; the archive of the run before stays under its own name.
RunAgain ==
    /\ pc = "done"
    /\ run < MaxRuns
    /\ run' = run + 1
    /\ now' = now + 1
    /\ prev_pairs' = filepath_pairs
    /\ pc' = "load_config"
    /\ out' = <<>>
    /\ config_read' = FALSE
    /\ seed' = -1
    /\ rng' = 0
    /\ cwd' = Cwd0
    /\ original_cwd' = Cwd0
    /\ excluded_dirs' = <<>>
    /\ compatibility_groups' = <<>>
    /\ filepath_groups' = <<>>
    /\ stack' = <<>>
    /\ visited' = <<>>
    /\ filepath_pairs' = <<>>
    /\ pack_dirs' = {}
    /\ mcmeta' = FALSE
    /\ copied' = {}
    /\ i' = 0
    /\ archive' = FALSE
    /\ removed' = FALSE
    /\ failed_at' = ""
    /\ exit_code' = -1
    /\ UNCHANGED inputs

Next ==
    \/ LoadConfig
    \/ LoadConfigFails
    \/ SeedRandom
    \/ CheckSource
    \/ CheckSourceFails
    \/ ReadConfigPaths
    \/ ReadConfigPathsFails
    \/ ChangeDir
    \/ ChangeDirFails
    \/ WalkDirectory
    \/ WalkRaises
    \/ RestoreDir
    \/ ShuffleFilepaths
    \/ CreatePack
    \/ CreatePackFails
    \/ CopyTexture
    \/ CopyTextureFails
    \/ Compress
    \/ CompressFails
    \/ CleanUp
    \/ CleanUpFails
    \/ RunAgain

Spec == Init /\ [][Next]_vars

\* ------------------------------------------------------------- properties
\* filepath_pairs has been built by lines 188-195.
Shuffled ==
    \/ pc \in {"create_pack", "copy", "cleanup", "done"}
    \/ pc = "exit" /\ failed_at \in {"create_pack", "copy", "compress", "cleanup"}

RECURSIVE Offset(_)
\* The number of pairs of the groups before group g.
Offset(g) == IF g <= 1 THEN 0 ELSE Offset(g - 1) + Len(filepath_groups[g - 1])

\* The pairs of group g within filepath_pairs.
GroupPairs(g) ==
    SubSeq(filepath_pairs, Offset(g) + 1, Offset(g) + Len(filepath_groups[g]))

Occurrences(x, s) == Cardinality({ k \in 1..Len(s) : s[k] = x })

Sources(ps) == [k \in 1..Len(ps) |-> ps[k].src]
Destinations(ps) == [k \in 1..Len(ps) |-> ps[k].dest]
Elements(s) == { s[k] : k \in 1..Len(s) }

\* C1: once the pairs are built, they are the groups' pairs laid end to end,
\* the sources of a group's pairs are the group's list, and every path occurs
\* as often among the destinations of a group's pairs as among their sources.
PermutationWithinGroups ==
    Shuffled =>
        /\ Len(filepath_pairs) = Offset(Len(filepath_groups) + 1)
        /\ \A g \in 1..Len(filepath_groups) :
              /\ Sources(GroupPairs(g)) = filepath_groups[g]
              /\ \A f \in Elements(Sources(GroupPairs(g)))
                          \cup Elements(Destinations(GroupPairs(g))) :
                    Occurrences(f, Destinations(GroupPairs(g)))
                        = Occurrences(f, Sources(GroupPairs(g)))

\* A configured group with files of two directories in which a file got the
\* path of a file of the other directory.
PermutationWitness ==
    /\ Shuffled
    /\ \E g \in 1..Len(compatibility_groups) :
          \E k \in 1..Len(GroupPairs(g)) :
             GroupPairs(g)[k].src.dir # GroupPairs(g)[k].dest.dir

\* C2: with a seed argument, an invocation on the same config and source
\* tree builds the list of pairs the invocation before it built.
SameSeedSamePairs ==
    (run > 1 /\ Len(argv) > 0 /\ Shuffled) => filepath_pairs = prev_pairs

\* A later invocation with a seed argument whose pairs move a file.
SameSeedWitness ==
    /\ run > 1
    /\ Len(argv) > 0
    /\ Shuffled
    /\ \E k \in 1..Len(filepath_pairs) : filepath_pairs[k].src # filepath_pairs[k].dest

\* Directory d is directory e or lies beneath it (normalized paths).
Beneath(d, e) ==
    \/ e = CurDir
    \/ Len(e) <= Len(d) /\ SubSeq(d, 1, Len(e)) = e

\* C3: no pair has a source or a destination whose directory is an excluded
\* directory or lies beneath one, the texture root included.
NoExcludedFileInPairs ==
    \A k \in 1..Len(filepath_pairs) : \A e \in Elements(excluded_dirs) :
        /\ ~Beneath(NormPath(filepath_pairs[k].src.dir), e)
        /\ ~Beneath(NormPath(filepath_pairs[k].dest.dir), e)

\* C4: without pack/assets/minecraft/textures the run makes no directory,
\* pack.mcmeta, copy or archive, does not get past the change of directory,
\* and does not end with status 0.
NoOutputWithoutSource ==
    pack # "full" =>
        /\ pack_dirs = {}
        /\ ~mcmeta
        /\ copied = {}
        /\ ~archive
        /\ pc \in {"load_config", "seed", "check_source", "config_paths", "chdir", "exit"}
        /\ exit_code # 0

\* The pack directory is there without the textures directory and the run
\* has ended with status 1 at os.chdir.
NoOutputWitness ==
    /\ pack = "pack_only"
    /\ pc = "exit"
    /\ failed_at = "chdir"
    /\ exit_code = 1

\* C5: when the archive is there and removing the pack directory fails, the
\* run still ends as a success with the archive in place.
CleanupFailureNonFatal ==
    failed_at = "cleanup" => (archive /\ pc = "done" /\ exit_code = 0)

SeedLinePrinted == \E k \in 1..Len(out) : out[k] = <<"random seed", seed>>

\* C6: without a seed argument nothing happens before the seed is printed:
\* any state in which main has done a step has the seed line on standard
\* output.
SeedPrintedBeforeAnyWork ==
    (Len(argv) = 0 /\ (pc # "load_config" \/ config_read)) => SeedLinePrinted

\* C6 as amended: without a seed argument the seed is derived from the clock
\* and its line is the first of standard output, printed before every step
\* but the reading of config.json.
SeedPrintedAfterConfig ==
    (/\ Len(argv) = 0
     /\ pc \notin {"load_config", "seed"}
     /\ ~(pc = "exit" /\ failed_at = "load_config"))
        => /\ seed = now
           /\ Len(out) > 0
           /\ out[1] = <<"random seed", seed>>

\* A run without seed argument that has failed after the reading of
\* config.json, the seed line printed.
SeedPrintedWitness ==
    /\ Len(argv) = 0
    /\ pc = "exit"
    /\ failed_at \in {"check_source", "chdir", "copy"}
    /\ SeedLinePrinted

ErrorPrinted ==
    \E k \in 1..Len(out) : out[k] = <<"error: failed to create root directory", 0>>

\* C7: a file is copied only into the pack directory made before, the
\* archive exists only once every pair is copied, the pack directory is
\* removed only once the archive exists, and a run that ends with status 0
\* leaves the archive and no pack directory.
PipelineOrder ==
    /\ (copied # {} /\ ~removed) => (mcmeta /\ Skeleton \subseteq pack_dirs)
    /\ archive =>
          /\ i = Len(filepath_pairs)
          /\ \A k \in 1..Len(filepath_pairs) :
                [src |-> SrcFp(filepath_pairs[k]), dest |-> DestFp(filepath_pairs[k])]
                    \in copied
    /\ removed => archive
    /\ pc = "done" => (exit_code = 0 /\ archive /\ removed /\ pack_dirs = {})

\* A run in which nothing failed has ended after copying several pairs.
PipelineWitness ==
    /\ pc = "done"
    /\ failed_at = ""
    /\ ~ErrorPrinted
    /\ Cardinality(copied) >= 2
    /\ archive
    /\ pack_dirs = {}

\* The .png files of a directory of the tree (given by its walk path).
Eligible(root) ==
    { [dir |-> root, name |-> f] :
        f \in { x \in Elements(Files(tree, NormPath(root))) : x.ext = ".png" } }

Matching(root) ==
    { g \in 1..Len(compatibility_groups) : InSeq(NormPath(root), compatibility_groups[g]) }

Unmatched == SelectSeq(visited, LAMBDA r : Matching(r) = {})

\* C8: the groups are the configured ones followed by one per unmatched
\* directory in the order of the walk, holding exactly that directory's
\* .png files; the .png files of a matched directory are in the configured
\* group of lowest index that names the directory and in no other group; a
\* file of an unmatched directory is paired with a file of that directory.
ClassificationPerDirectory ==
    /\ Len(filepath_groups) = Len(compatibility_groups) + Len(Unmatched)
    /\ \A k \in 1..Len(Unmatched) :
          /\ Elements(filepath_groups[Len(compatibility_groups) + k]) = Eligible(Unmatched[k])
          /\ Len(filepath_groups[Len(compatibility_groups) + k])
                = Cardinality(Eligible(Unmatched[k]))
    /\ \A k \in 1..Len(visited) :
          Matching(visited[k]) # {} =>
             \A f \in Eligible(visited[k]) : \A g \in 1..Len(filepath_groups) :
                Occurrences(f, filepath_groups[g])
                   = (IF g \in Matching(visited[k])
                         /\ \A h \in Matching(visited[k]) : g <= h
                      THEN 1 ELSE 0)
    /\ \A g \in 1..Len(compatibility_groups) : \A f \in Elements(filepath_groups[g]) :
          g \in Matching(f.dir)
    /\ \A k \in 1..Len(filepath_pairs) :
          Matching(filepath_pairs[k].src.dir) = {} =>
             filepath_pairs[k].dest.dir = filepath_pairs[k].src.dir

\* The pairs are built; a directory with a .png file is named by two
\* configured groups, and two unmatched directories hold .png files.
ClassificationWitness ==
    /\ Shuffled
    /\ \E k \in 1..Len(visited) :
          Cardinality(Matching(visited[k])) >= 2 /\ Eligible(visited[k]) # {}
    /\ \E k, m \in 1..Len(Unmatched) :
          k # m /\ Eligible(Unmatched[k]) # {} /\ Eligible(Unmatched[m]) # {}

\* C9: once an iteration of the copy loop has raised, the run has ended with
\* status 1 at that pair: neither it nor a later pair is copied, there is no
\* archive, and the pack directory is still there.
CopyFailureIsFatal ==
    failed_at = "copy" =>
        /\ pc = "exit"
        /\ exit_code = 1
        /\ ~archive
        /\ ~removed
        /\ PackName \in pack_dirs
        /\ i < Len(filepath_pairs)
        /\ Cardinality(copied) = i
        /\ \A k \in (i + 1)..Len(filepath_pairs) :
              [src |-> SrcFp(filepath_pairs[k]), dest |-> DestFp(filepath_pairs[k])]
                  \notin copied

\* The copy of a pair failed after a pair was copied and before the last one.
CopyFailureWitness ==
    /\ failed_at = "copy"
    /\ i >= 1
    /\ i + 1 < Len(filepath_pairs)

\* The traversal step is over, completed or ended by an exception.
AfterTraversal ==
    \/ pc \in {"shuffle", "create_pack", "copy", "cleanup", "done"}
    \/ pc = "exit" /\ failed_at \in {"walk", "create_pack", "copy", "compress", "cleanup"}

\* C10: in every state after the traversal step, completed or failed, the
\* working directory is the one main started with.
WorkingDirectoryRestored ==
    AfterTraversal => cwd = Cwd0

====
